---- MODULE Spec2Model ----
(***************************************************************************)
(* Model of the W3C trace-context propagator HttpTraceContext              *)
(* (api/include/opentelemetry/trace/propagation/http_trace_context.h) and  *)
(* of the TraceState list it fills (trace_state, Builder::set).            *)
(*                                                                         *)
(* Strings are sequences of character codes (ASCII), because the code      *)
(* computes with the codes: it compares them with '-', '\t', 'a'..'f',     *)
(* multiplies them by 16 and uses a byte as a repeat count.                *)
(* Bytes are naturals in 0..255; uint8_t arithmetic is taken modulo 256.   *)
(***************************************************************************)
EXTENDS Integers, Sequences, FiniteSets, TLC

(***************************************************************************)
(* Character codes the source names                                        *)
(***************************************************************************)
\* '\t', skipped by both parsers
ChTab == 9
\* '-', the traceparent delimiter
ChDash == 45
\* ',', the tracestate member delimiter
ChComma == 44
\* '=', kTraceStateKeyValueDelimiter
ChEquals == 61
\* the char argument of std::string(it, 1)
ChOne == 1
\* '0' and '9', 'a' and 'f': the bounds of the two hex ranges
Ch0 == 48
Ch9 == 57
ChLowerA == 97
ChLowerF == 102
\* 'z', the end of isNumberOrDigit's letter range
ChLowerZ == 122
\* ' ' and '~', the bounds of the value characters
ChSpace == 32
ChTilde == 126
\* the key punctuation
ChUnderscore == 95
ChAt == 64
ChStar == 42
ChSlash == 47
\* TraceState::KEY_MAX_SIZE, VALUE_MAX_SIZE
KEY_MAX_SIZE == 256
VALUE_MAX_SIZE == 256

(***************************************************************************)
(* Constants of http_trace_context.h                                       *)
(***************************************************************************)
kVersionBytes == 2
kTraceIdBytes == 32
kParentIdBytes == 16
kTraceFlagBytes == 2
kTraceDelimiterBytes == 3
kHeaderSize ==
  kVersionBytes + kTraceIdBytes + kParentIdBytes + kTraceFlagBytes + kTraceDelimiterBytes
kTraceStateMaxMembers == 32
\* kHeaderElementLengths[4] = {2,32,16,2}, indexed from 0 in the source
kHeaderElementLengths == <<2, 32, 16, 2>>
kTraceParent == "traceparent"
kTraceState == "tracestate"
\* the context key both Inject and Extract use
span_key == "current-span"

(***************************************************************************)
(* String helpers: nostd::string_view / std::string operations             *)
(***************************************************************************)
Min(a, b) == IF a < b THEN a ELSE b

\* string_view::substr(pos, n) for 0 <= pos <= length; pos is 0-based.
\* The count is clamped to the characters that remain.
substr(s, pos, n) ==
  SubSeq(s, pos + 1, Min(pos + n, Len(s)))

\* std::string(count, ch): count copies of ch
Repeat(count, ch) == [i \in 1..count |-> ch]

\* s[i] with the source's 0-based index
At(s, i) == s[i + 1]

(***************************************************************************)
(* Value types the propagator uses: TraceId (16 bytes), SpanId (8 bytes),  *)
(* TraceFlags (1 byte), TraceState entries, SpanContext.                   *)
(***************************************************************************)
Byte == 0..255

\* TraceId::IsValid / SpanId::IsValid: not all bytes zero
IsValidId(id) == \E i \in 1..Len(id) : id[i] # 0

\* trace::SpanContext(trace_id, span_id, trace_flags, trace_state, is_remote)
SpanContext(tid, sid, flags, ts, remote) ==
  [trace_id |-> tid, span_id |-> sid, trace_flags |-> flags,
   trace_state |-> ts, is_remote |-> remote]

\* trace::SpanContext(): zero ids, no flags, no trace state, not remote
DefaultSpanContext ==
  SpanContext([i \in 1..16 |-> 0], [i \in 1..8 |-> 0], 0, <<>>, FALSE)

\* SpanContext::IsValid
IsValid(sc) == IsValidId(sc.trace_id) /\ IsValidId(sc.span_id)

\* TraceFlags::IsSampled: bit 0
IsSampled(flags) == flags % 2 = 1

\* TraceState::Entry::create(key, value): no check of key or value
Entry(key, value) == [key |-> key, value |-> value]

\* entries.remove(i) for the first i whose key equals key (then break)
RemoveFirst(entries, key) ==
  IF \E i \in 1..Len(entries) : entries[i].key = key
  THEN LET i == CHOOSE j \in 1..Len(entries) :
                  /\ entries[j].key = key
                  /\ \A k \in 1..(j - 1) : entries[k].key # key
       IN SubSeq(entries, 1, i - 1) \o SubSeq(entries, i + 1, Len(entries))
  ELSE entries

\* entries.add(0, entry) alone: set without its loop over the staged entries
AddFirst(entries, key, value) == <<Entry(key, value)>> \o entries

\* TraceState Set(key, value), as Builder::set does it: drop the entry that
\* has the key, then entries.add(0, entry). Neither validateKey nor
\* validateValue is called.
Set(entries, key, value) ==
  <<Entry(key, value)>> \o RemoveFirst(entries, key)

(***************************************************************************)
(* The context store: a persistent list of bindings, newest first.         *)
(* SetValue derives a new context and leaves the receiver alone.           *)
(***************************************************************************)
EmptyContext == <<>>

SetValue(ctx, key, value) == <<[key |-> key, value |-> value]>> \o ctx

HasValue(ctx, key) == \E i \in 1..Len(ctx) : ctx[i].key = key

GetValue(ctx, key) ==
  LET i == CHOOSE j \in 1..Len(ctx) :
             /\ ctx[j].key = key
             /\ \A k \in 1..(j - 1) : ctx[k].key # key
  IN ctx[i].value

(***************************************************************************)
(* The carrier: std::map<std::string, std::string>                         *)
(***************************************************************************)
EmptyCarrier == [h \in {} |-> <<>>]

\* c[std::string(name)]: the value, or the empty string for a missing key
Lookup(c, name) == IF name \in DOMAIN c THEN c[name] ELSE <<>>

\* the Setter: writes or overwrites one header
Setter(c, name, value) ==
  [h \in (DOMAIN c) \cup {name} |-> IF h = name THEN value ELSE c[h]]

(***************************************************************************)
(* Inject side: SpanContextToString                                        *)
(***************************************************************************)
\* for (auto it : id) hex_string += std::string(it, 1);
\* std::string(count, ch): each byte b appends b characters of code 1
RECURSIVE AppendId(_, _, _)
AppendId(hex_string, id, i) ==
  IF i > Len(id) THEN hex_string
  ELSE AppendId(hex_string \o Repeat(id[i], ChOne), id, i + 1)

\* "-" + trace_flags: the literal's address moved by trace_flags chars.
\* 0 leaves "-", 1 leaves the terminator (""), 2 and more point past the
\* literal: what is read there is oob.
DashPlusFlags(trace_flags, oob) ==
  IF trace_flags = 0 THEN <<ChDash>>
  ELSE IF trace_flags = 1 THEN <<>>
  ELSE oob

\* the std::string hex_string as built before the function returns
SpanContextToString(sc, oob) ==
  LET s0 == <<Ch0, Ch0, ChDash>>
      s1 == AppendId(s0, sc.trace_id, 1) \o <<ChDash>>
      s2 == AppendId(s1, sc.span_id, 1)
  IN s2 \o DashPlusFlags(sc.trace_flags, oob)

\* The function returns a string_view of its local std::string, destroyed
\* at the return: the Setter reads freed storage. It sees the characters
\* still in place, or the head of them overwritten by g.
Clobbered(s, g) == [i \in 1..Len(s) |-> IF i <= 8 THEN g ELSE s[i]]

(***************************************************************************)
(* Extract side: the traceparent parser                                    *)
(***************************************************************************)
\* (c >= 'a' && c <= 'f') || (c >= '0' && c <= '9')
IsLowerHex(c) == (c >= ChLowerA /\ c <= ChLowerF) \/ (c >= Ch0 /\ c <= Ch9)

\* One turn of the for loop of ExtractContextFromTraceParent, at index i.
\* st holds the locals; rethrow is set where the loop runs a bare "throw;",
\* which has no exception to rethrow.
TraceParentTurn(trace_parent, i, st) ==
  LET c == At(trace_parent, i) IN
  IF c = ChTab THEN st
  ELSE IF c = ChDash THEN
    IF st.countdown = 0 THEN
      IF st.elt_num <= 2 THEN
        LET elt == substr(trace_parent, st.start_pos,
                          kHeaderElementLengths[st.elt_num + 1])
        IN [st EXCEPT
              !.version = IF st.elt_num = 0 THEN elt ELSE @,
              !.trace_id = IF st.elt_num = 1 THEN elt ELSE @,
              !.span_id = IF st.elt_num = 2 THEN elt ELSE @,
              !.countdown = kHeaderElementLengths[st.elt_num + 2],
              !.elt_num = @ + 1,
              !.start_pos = -1]
      ELSE [st EXCEPT !.rethrow = TRUE]
    ELSE [st EXCEPT !.rethrow = TRUE]
  ELSE IF IsLowerHex(c) THEN
    [st EXCEPT !.start_pos = IF @ = -1 THEN i ELSE @,
               !.countdown = @ - 1]
  ELSE [st EXCEPT !.rethrow = TRUE]

\* the turns for i = lo, lo + 1, ..., hi - 1, in that order, up to the
\* first "throw;"
RECURSIVE ScanTraceParent(_, _, _, _)
ScanTraceParent(trace_parent, lo, hi, st) ==
  IF lo >= hi THEN st
  ELSE IF hi = lo + 1 THEN TraceParentTurn(trace_parent, lo, st)
  ELSE LET mid == (lo + hi) \div 2
           left == ScanTraceParent(trace_parent, lo, mid, st)
       IN IF left.rethrow THEN left
          ELSE ScanTraceParent(trace_parent, mid, hi, left)

\* one byte from two characters: buf = (uint8_t)(c1) * 16; buf += (uint8_t)(c2).
\* The character codes themselves are used, in uint8_t arithmetic.
ByteFromChars(c1, c2) == (((c1 * 16) % 256) + c2) % 256

\* GenerateTraceIdFromString: 32 characters to 16 bytes
GenerateTraceIdFromString(trace_id) ==
  [k \in 1..16 |-> ByteFromChars(trace_id[2 * k - 1], trace_id[2 * k])]

\* GenerateSpanIdFromString: 16 characters to 8 bytes
GenerateSpanIdFromString(span_id) ==
  [k \in 1..8 |-> ByteFromChars(span_id[2 * k - 1], span_id[2 * k])]

\* GenerateTraceFlagsFromString: trace_flags[0] and trace_flags[1]; when the
\* view holds one character only, trace_flags[1] reads past it: oob.
GenerateTraceFlagsFromString(trace_flags, oob) ==
  ByteFromChars(trace_flags[1],
                IF Len(trace_flags) >= 2 THEN trace_flags[2] ELSE oob)

Zeros(n) == [i \in 1..n |-> Ch0]

Returned(sc) == [kind |-> "return", span_context |-> sc]
\* std::terminate, reached by "throw;" with no exception being handled
Terminated == [kind |-> "terminate", span_context |-> DefaultSpanContext]

\* ExtractContextFromTraceParent
ExtractContextFromTraceParent(trace_parent, oob) ==
  LET is_valid ==
        /\ Len(trace_parent) = kHeaderSize
        /\ At(trace_parent, kVersionBytes) = ChDash
        /\ At(trace_parent, kVersionBytes + kTraceIdBytes + 1) = ChDash
        /\ At(trace_parent, kVersionBytes + kTraceIdBytes + kParentIdBytes + 2) = ChDash
  IN
  IF ~is_valid THEN Returned(DefaultSpanContext)
  ELSE
    LET st == ScanTraceParent(trace_parent, 0, Len(trace_parent),
                [elt_num |-> 0, countdown |-> kHeaderElementLengths[1],
                 start_pos |-> -1, version |-> <<>>, trace_id |-> <<>>,
                 span_id |-> <<>>, rethrow |-> FALSE])
    IN
    IF st.rethrow THEN Terminated
    \* substr(size_t(-1), 2) throws std::out_of_range, caught below
    ELSE IF st.start_pos = -1 THEN Returned(DefaultSpanContext)
    ELSE
      LET trace_flags == substr(trace_parent, st.start_pos,
                                kHeaderElementLengths[st.elt_num + 1])
      IN
      IF st.trace_id = Zeros(32) \/ st.span_id = Zeros(16)
      THEN Returned(DefaultSpanContext)
      ELSE IF st.version = <<ChLowerF, ChLowerF>>
      THEN Returned(DefaultSpanContext)
      ELSE Returned(SpanContext(GenerateTraceIdFromString(st.trace_id),
                                GenerateSpanIdFromString(st.span_id),
                                GenerateTraceFlagsFromString(trace_flags, oob),
                                <<>>, TRUE))

(***************************************************************************)
(* Extract side: the tracestate parser                                     *)
(***************************************************************************)
\* AddNewMember: split at the first '=' and Set; a member with no '=' is
\* passed over
RECURSIVE AddNewMemberFrom(_, _, _)
AddNewMemberFrom(trace_state, member, i) ==
  IF i >= Len(member) THEN trace_state
  ELSE IF At(member, i) = ChEquals
  THEN Set(trace_state, substr(member, 0, i),
           substr(member, i + 1, Len(member) - i - 1))
  ELSE AddNewMemberFrom(trace_state, member, i + 1)

AddNewMember(trace_state, member) == AddNewMemberFrom(trace_state, member, 0)

\* One turn of the for loop of ExtractTraceState, at index i
TraceStateTurn(header, i, st) ==
  LET c == At(header, i) IN
  IF c = ChTab THEN st
  ELSE IF c = ChComma THEN
    IF st.start_pos = -1 /\ st.end_pos = -1 THEN st
    ELSE
      LET list_member == substr(header, st.start_pos,
                                st.end_pos - st.start_pos + 1)
      IN [st EXCEPT !.element_num = @ + 1,
                    !.trace_state = AddNewMember(@, list_member),
                    !.end_pos = -1,
                    !.start_pos = -1]
  ELSE [st EXCEPT !.end_pos = i,
                  !.start_pos = IF @ = -1 THEN i ELSE @]

\* the turns for i = lo, lo + 1, ..., hi - 1, in that order. The test on
\* element_num is always true: it has the first half evaluated before the
\* second is entered, which keeps the evaluation shallow.
RECURSIVE ScanTraceState(_, _, _, _)
ScanTraceState(header, lo, hi, st) ==
  IF lo >= hi THEN st
  ELSE IF hi = lo + 1 THEN TraceStateTurn(header, lo, st)
  ELSE LET mid == (lo + hi) \div 2
           left == ScanTraceState(header, lo, mid, st)
       IN IF left.element_num >= 0
          THEN ScanTraceState(header, mid, hi, left)
          ELSE left

\* ExtractTraceState: the parsed list, or std::invalid_argument thrown
ExtractTraceState(header) ==
  LET st == ScanTraceState(header, 0, Len(header),
              [start_pos |-> -1, end_pos |-> -1, element_num |-> 0,
               trace_state |-> <<>>])
      last ==
        IF st.start_pos # -1 /\ st.end_pos # -1
        THEN [st EXCEPT
                !.trace_state =
                   AddNewMember(@, substr(header, st.start_pos,
                                          st.end_pos - st.start_pos + 1)),
                !.element_num = @ + 1]
        ELSE st
  IN IF last.element_num >= kTraceStateMaxMembers
     THEN [thrown |-> TRUE, trace_state |-> <<>>]
     ELSE [thrown |-> FALSE, trace_state |-> last.trace_state]

\* ExtractImpl
ExtractImpl(carrier, oob) ==
  LET trace_parent == Lookup(carrier, kTraceParent) IN
  IF trace_parent = <<>> THEN Returned(DefaultSpanContext)
  ELSE
    LET from_parent == ExtractContextFromTraceParent(trace_parent, oob) IN
    IF from_parent.kind = "terminate" THEN Terminated
    ELSE IF ~IsValid(from_parent.span_context) THEN from_parent
    ELSE
      LET trace_state_header == Lookup(carrier, kTraceState) IN
      IF trace_state_header = <<>> THEN from_parent
      ELSE
        LET parsed == ExtractTraceState(trace_state_header) IN
        \* catch (std::exception&): the context from the traceparent alone
        IF parsed.thrown THEN from_parent
        ELSE Returned(SpanContext(from_parent.span_context.trace_id,
                                  from_parent.span_context.span_id,
                                  from_parent.span_context.trace_flags,
                                  parsed.trace_state, TRUE))

(***************************************************************************)
(* The wire grammar of the W3C headers, used to build the inputs and to    *)
(* state what Inject and Extract are expected to do with them.             *)
(***************************************************************************)
\* the lowercase hex digit of a value 0..15
HexChar(n) == IF n < 10 THEN Ch0 + n ELSE ChLowerA + (n - 10)

\* the value 0..15 of a lowercase hex digit
HexValue(c) == IF c >= Ch0 /\ c <= Ch9 THEN c - Ch0 ELSE c - ChLowerA + 10

\* bytes to lowercase hex, two zero-padded digits per byte, high nibble first
HexOfBytes(bytes) ==
  [i \in 1..(2 * Len(bytes)) |->
     IF i % 2 = 1 THEN HexChar(bytes[(i + 1) \div 2] \div 16)
     ELSE HexChar(bytes[i \div 2] % 16)]

\* lowercase hex to bytes, high nibble first
BytesOfHex(hex) ==
  [k \in 1..(Len(hex) \div 2) |->
     (16 * HexValue(hex[2 * k - 1]) + HexValue(hex[2 * k])) % 256]

\* version "-" trace-id "-" parent-id "-" trace-flags
TraceParentOf(version, tid, sid, flags) ==
  HexOfBytes(<<version>>) \o <<ChDash>> \o HexOfBytes(tid) \o <<ChDash>>
    \o HexOfBytes(sid) \o <<ChDash>> \o HexOfBytes(<<flags>>)

\* the fields of a 55-character traceparent, by fixed offsets
VersionField(tp) == SubSeq(tp, 1, 2)
TraceIdField(tp) == SubSeq(tp, 4, 35)
SpanIdField(tp) == SubSeq(tp, 37, 52)
FlagsField(tp) == SubSeq(tp, 54, 55)

\* the traceparent grammar and the three rejections
WellFormedTraceParent(tp) ==
  /\ Len(tp) = 55
  /\ \A i \in 0..54 :
       IF i \in {2, 35, 52} THEN At(tp, i) = ChDash ELSE IsLowerHex(At(tp, i))
  /\ VersionField(tp) # <<ChLowerF, ChLowerF>>
  /\ TraceIdField(tp) # Zeros(32)
  /\ SpanIdField(tp) # Zeros(16)

\* key=value members joined by ','
RECURSIVE FormatTraceState(_)
FormatTraceState(entries) ==
  IF entries = <<>> THEN <<>>
  ELSE entries[1].key \o <<ChEquals>> \o entries[1].value
         \o (IF Len(entries) = 1 THEN <<>>
             ELSE <<ChComma>> \o FormatTraceState(Tail(entries)))

\* the tokens of a header between its commas
RECURSIVE SplitAtComma(_)
SplitAtComma(header) ==
  IF \E i \in 1..Len(header) : header[i] = ChComma
  THEN LET i == CHOOSE j \in 1..Len(header) :
                  /\ header[j] = ChComma
                  /\ \A k \in 1..(j - 1) : header[k] # ChComma
       IN <<SubSeq(header, 1, i - 1)>>
            \o SplitAtComma(SubSeq(header, i + 1, Len(header)))
  ELSE <<header>>

\* a token without the tabs around it
RECURSIVE Trim(_)
Trim(token) ==
  IF token = <<>> THEN token
  ELSE IF token[1] = ChTab THEN Trim(Tail(token))
  ELSE IF token[Len(token)] = ChTab THEN Trim(SubSeq(token, 1, Len(token) - 1))
  ELSE token

RECURSIVE NonEmpty(_)
NonEmpty(tokens) ==
  IF tokens = <<>> THEN <<>>
  ELSE (IF tokens[1] = <<>> THEN <<>> ELSE <<tokens[1]>>) \o NonEmpty(Tail(tokens))

\* the members of a tracestate header, left to right
Members(header) ==
  LET tokens == SplitAtComma(header)
  IN NonEmpty([i \in 1..Len(tokens) |-> Trim(tokens[i])])

CountOf(s, c) == Cardinality({i \in 1..Len(s) : s[i] = c})

IsKeyStart(c) == (c >= ChLowerA /\ c <= ChLowerZ) \/ (c >= Ch0 /\ c <= Ch9)

\* key grammar: 1..256 characters, a lowercase letter or digit first, then
\* lowercase letters, digits, '_', '-', '@', '*', '/', at most one '@'
KeyGrammar(key) ==
  /\ Len(key) >= 1
  /\ Len(key) <= KEY_MAX_SIZE
  /\ IsKeyStart(key[1])
  /\ \A i \in 2..Len(key) :
       IsKeyStart(key[i]) \/ key[i] \in {ChUnderscore, ChDash, ChAt, ChStar, ChSlash}
  /\ CountOf(key, ChAt) <= 1

\* value grammar: 0..256 characters of 0x20..0x7E, no ',' or '=', no
\* trailing space
ValueGrammar(value) ==
  /\ Len(value) <= VALUE_MAX_SIZE
  /\ \A i \in 1..Len(value) :
       /\ value[i] >= ChSpace
       /\ value[i] <= ChTilde
       /\ value[i] \notin {ChComma, ChEquals}
  /\ (value = <<>> \/ value[Len(value)] # ChSpace)

\* the position of the first '=' of a member that has one
EqualsAt(member) ==
  CHOOSE j \in 1..Len(member) :
    /\ member[j] = ChEquals
    /\ \A k \in 1..(j - 1) : member[k] # ChEquals

MemberKey(member) == SubSeq(member, 1, EqualsAt(member) - 1)
MemberValue(member) == SubSeq(member, EqualsAt(member) + 1, Len(member))

WellFormedMember(member) ==
  /\ CountOf(member, ChEquals) = 1
  /\ KeyGrammar(MemberKey(member))
  /\ ValueGrammar(MemberValue(member))

\* every member well formed, keys pairwise distinct
WellFormedTraceState(header) ==
  LET ms == Members(header) IN
  /\ \A i \in 1..Len(ms) : WellFormedMember(ms[i])
  /\ \A i, j \in 1..Len(ms) : i # j => MemberKey(ms[i]) # MemberKey(ms[j])

\* the entries of a well-formed header in wire order
EntriesOf(header) ==
  LET ms == Members(header)
  IN [i \in 1..Len(ms) |-> Entry(MemberKey(ms[i]), MemberValue(ms[i]))]

(***************************************************************************)
(* Inputs: span contexts held by the context, and header values            *)
(***************************************************************************)
\* 4bf92f3577b34da6a3ce929d0e0e4736
TraceIdExample ==
  <<75, 249, 47, 53, 119, 179, 77, 166, 163, 206, 146, 157, 14, 14, 71, 54>>
\* 00f067aa0ba902b7
SpanIdExample == <<0, 240, 103, 170, 11, 169, 2, 183>>
\* 00000000000000000000000000000001 and 0000000000000001
TraceIdOne == [i \in 1..16 |-> IF i = 16 THEN 1 ELSE 0]
SpanIdOne == [i \in 1..8 |-> IF i = 8 THEN 1 ELSE 0]
\* 02020202020202020202020202020202 and 0202020202020202
TraceIdTwos == [i \in 1..16 |-> 2]
SpanIdTwos == [i \in 1..8 |-> 2]
TraceIdZero == [i \in 1..16 |-> 0]
SpanIdZero == [i \in 1..8 |-> 0]

\* "rojo"
KeyRojo == <<114, 111, 106, 111>>
\* "00f067aa0ba902b7"
ValRojo == <<48, 48, 102, 48, 54, 55, 97, 97, 48, 98, 97, 57, 48, 50, 98, 55>>
\* "congo"
KeyCongo == <<99, 111, 110, 103, 111>>
\* "t61rcWkgMzE"
ValCongo == <<116, 54, 49, 114, 99, 87, 107, 103, 77, 122, 69>>

InputTraceStates ==
  { <<>>,
    <<Entry(KeyRojo, ValRojo)>>,
    <<Entry(KeyRojo, ValRojo), Entry(KeyCongo, ValCongo)>> }

InputIds ==
  { <<TraceIdExample, SpanIdExample>>, <<TraceIdOne, SpanIdOne>>,
    <<TraceIdTwos, SpanIdTwos>>, <<TraceIdZero, SpanIdOne>>,
    <<TraceIdOne, SpanIdZero>> }

InputFlags == {0, 1, 2}

InputSpanContexts ==
  {DefaultSpanContext} \cup
  { SpanContext(ids[1], ids[2], f, ts, r) :
      ids \in InputIds, f \in InputFlags, ts \in InputTraceStates,
      r \in BOOLEAN }

\* contexts with and without a span context under span_key
InputContexts ==
  {EmptyContext} \cup
  { SetValue(EmptyContext, span_key, sc) : sc \in InputSpanContexts }

FewContexts ==
  { EmptyContext,
    SetValue(EmptyContext, span_key,
             SpanContext(TraceIdOne, SpanIdOne, 1,
                         <<Entry(KeyRojo, ValRojo)>>, FALSE)) }

\* "00-4bf92f3577b34da6a3ce929d0e0e4736-00f067aa0ba902b7-01"
TraceParentExample == TraceParentOf(0, TraceIdExample, SpanIdExample, 1)
\* "00-00000000000000000000000000000001-0000000000000001-00"
TraceParentOne == TraceParentOf(0, TraceIdOne, SpanIdOne, 0)

\* tp with the character at 0-based position pos replaced by c
WithChar(tp, pos, c) == [tp EXCEPT ![pos + 1] = c]

DigitPositions == {0, 1, 3, 20, 34, 36, 51, 53, 54}
DashPositions == {2, 35, 52}
\* '\t', 'A', '-', 'g'
NonHexChars == {ChTab, 65, ChDash, 103}

MalformedTraceParents ==
  { WithChar(TraceParentExample, pos, c) : pos \in DigitPositions, c \in NonHexChars }
  \cup { WithChar(TraceParentExample, pos, c) : pos \in DashPositions, c \in {Ch0, ChTab} }
  \cup { WithChar(WithChar(TraceParentExample, 53, ChTab), 54, ChTab),
         SubSeq(TraceParentExample, 1, 54),
         TraceParentExample \o <<Ch0>>,
         TraceParentOf(255, TraceIdExample, SpanIdExample, 1),
         TraceParentOf(0, TraceIdZero, SpanIdExample, 1),
         TraceParentOf(0, TraceIdExample, SpanIdZero, 1) }

InputTraceParents ==
  { TraceParentExample, TraceParentOne,
    TraceParentOf(0, TraceIdTwos, SpanIdTwos, 255) }
  \cup MalformedTraceParents

\* "rojo=00f067aa0ba902b7,congo=t61rcWkgMzE"
TsExample ==
  <<114, 111, 106, 111, 61, 48, 48, 102, 48, 54, 55, 97, 97, 48, 98, 97, 57,
    48, 50, 98, 55, 44, 99, 111, 110, 103, 111, 61, 116, 54, 49, 114, 99, 87,
    107, 103, 77, 122, 69>>
\* "a=1"
TsSingle == <<97, 61, 49>>
\* "a=1,\tb=2"
TsTabs == <<97, 61, 49, 44, 9, 98, 61, 50>>
\* "a=1,bad,c=3"
TsNoEquals == <<97, 61, 49, 44, 98, 97, 100, 44, 99, 61, 51>>
\* "bad"
TsOnlyNoEquals == <<98, 97, 100>>
\* "a=1,a=2"
TsDuplicate == <<97, 61, 49, 44, 97, 61, 50>>
\* "a=1,b=2,a=3"
TsDuplicateApart == <<97, 61, 49, 44, 98, 61, 50, 44, 97, 61, 51>>
\* "A=1,b=2"
TsUpperKey == <<65, 61, 49, 44, 98, 61, 50>>
\* " bad=x,b=2"
TsSpaceKey == <<32, 98, 97, 100, 61, 120, 44, 98, 61, 50>>
\* "a=1=2,b=2"
TsTwoEquals == <<97, 61, 49, 61, 50, 44, 98, 61, 50>>
\* "a=1 ,b=2"
TsTrailingSpace == <<97, 61, 49, 32, 44, 98, 61, 50>>
\* "a@b@c=1,b=2"
TsTwoAt == <<97, 64, 98, 64, 99, 61, 49, 44, 98, 61, 50>>
\* "=1,b=2"
TsEmptyKey == <<61, 49, 44, 98, 61, 50>>

\* the member "kNN=v" for NN = i in two decimal digits
NumberedMember(i) ==
  <<107, Ch0 + (i \div 10), Ch0 + (i % 10), ChEquals, 118>>

\* "k01=v,k02=v,...": n well-formed members with distinct keys
RECURSIVE NumberedHeader(_)
NumberedHeader(n) ==
  IF n = 1 THEN NumberedMember(1)
  ELSE NumberedHeader(n - 1) \o <<ChComma>> \o NumberedMember(n)

\* the largest member count the inputs reach: one past the 32 the header may hold
MaxMembers == 33

InputTraceStateHeaders ==
  { TsExample, TsSingle, TsTabs, TsNoEquals, TsOnlyNoEquals, TsDuplicate,
    TsDuplicateApart, TsUpperKey, TsSpaceKey, TsTwoEquals, TsTrailingSpace,
    TsTwoAt, TsEmptyKey }
  \cup { NumberedHeader(n) : n \in 1..MaxMembers }

\* a carrier from a traceparent and a tracestate value; an empty value
\* stands for a header that is not set
CarrierOf(tp, ts) ==
  [h \in (IF tp = <<>> THEN {} ELSE {kTraceParent})
           \cup (IF ts = <<>> THEN {} ELSE {kTraceState}) |->
     IF h = kTraceParent THEN tp ELSE ts]

\* a traceparent header that is present and empty
EmptyTraceParentCarrier(ts) ==
  [h \in {kTraceParent} \cup (IF ts = <<>> THEN {} ELSE {kTraceState}) |->
     IF h = kTraceParent THEN <<>> ELSE ts]

InputCarriers ==
  { CarrierOf(tp, ts) : tp \in InputTraceParents \cup {<<>>},
                        ts \in {<<>>, TsExample} }
  \cup { CarrierOf(tp, ts) : tp \in {TraceParentExample, TraceParentOne, <<>>},
                             ts \in InputTraceStateHeaders }
  \cup { EmptyTraceParentCarrier(ts) : ts \in InputTraceStateHeaders \cup {<<>>} }

FewCarriers == { EmptyCarrier, CarrierOf(TraceParentOne, TsSingle) }

\* what a read past the "-" literal can find: nothing, or two characters
OobStrings == { <<>>, <<Ch0, Ch9>> }
\* what a read past a one-character view can find: the terminator, or another byte
OobChars == { 0, 255 }
\* what freed storage can hold in place of the head of the string
GarbageChars == { 0 }

(***************************************************************************)
(* State                                                                    *)
(***************************************************************************)
VARIABLES
  context,       \* the context handed to Inject and Extract
  carrier,       \* the carrier: header name -> value
  carrier0,      \* the carrier before the first call
  setter_calls,  \* the Setter calls made so far: <<name, value>>
  extracted,     \* the context Extract returned
  calls,         \* the calls made so far, by name
  status,        \* "running", "threw" (an exception left the call),
                 \* "terminated" (std::terminate or a fault)
  lists,         \* the entry lists that exist, by identity: id -> entries
  parent,        \* Builder::parent: the list the parent TraceState holds
  entries,       \* Builder::entries: the staged list, or null
  built,         \* the TraceStates build() returned, oldest first: the
                 \* list each one holds
  builder_calls  \* the Builder calls made so far

propagator_vars ==
  <<context, carrier, carrier0, setter_calls, extracted, calls, status>>

builder_vars == <<lists, parent, entries, built, builder_calls>>

vars == <<propagator_vars, builder_vars>>

\* the value of Builder::entries before the first edit
null == 0

\* Builder.EMPTY: create(Collections.emptyList()); the empty list is list 1
EMPTY == 1

\* TraceState.builder(): a Builder over EMPTY, nothing staged, and no call made
builder ==
  /\ lists = << <<>> >>
  /\ parent = EMPTY
  /\ entries = null
  /\ built = <<>>
  /\ builder_calls = <<>>

Init ==
  /\ \/ context \in InputContexts /\ carrier \in FewCarriers
     \/ context \in FewContexts /\ carrier \in InputCarriers
  /\ carrier0 = carrier
  /\ setter_calls = <<>>
  /\ extracted = EmptyContext
  /\ calls = <<>>
  /\ status = "running"
  /\ builder

\* GetCurrentSpanContext: nostd::get of the stored shared_ptr, dereferenced
\* with no check. With no value under span_key there is nothing to read:
\* the call does not return.
GetCurrentSpanContext(ctx) ==
  IF HasValue(ctx, span_key)
  THEN [kind |-> "return", span_context |-> GetValue(ctx, span_key)]
  ELSE [kind |-> "fault", span_context |-> DefaultSpanContext]

\* what the Setter can read through the dangling view of hex_string
DanglingViews(hex_string) ==
  {hex_string} \cup { Clobbered(hex_string, g) : g \in GarbageChars }

\* InjectImpl: one Setter call, for traceparent; the tracestate branch only
\* prints
InjectImpl(seen) ==
  /\ carrier' = Setter(carrier, kTraceParent, seen)
  /\ setter_calls' = Append(setter_calls, <<kTraceParent, seen>>)

\* HttpTraceContext::Inject(setter, carrier, context)
Inject ==
  /\ status = "running"
  /\ calls = <<>>
  /\ calls' = Append(calls, "Inject")
  /\ LET got == GetCurrentSpanContext(context) IN
     IF got.kind = "fault"
     THEN /\ status' \in {"threw", "terminated"}
          /\ UNCHANGED <<carrier, setter_calls>>
     ELSE IF ~IsValid(got.span_context)
     THEN UNCHANGED <<carrier, setter_calls, status>>
     ELSE /\ \E oob \in OobStrings :
               \E seen \in DanglingViews(SpanContextToString(got.span_context, oob)) :
                 InjectImpl(seen)
          /\ UNCHANGED status
  /\ UNCHANGED <<context, carrier0, extracted>>
  /\ UNCHANGED builder_vars

\* HttpTraceContext::Extract(getter, carrier, context)
Extract ==
  /\ status = "running"
  /\ \A i \in 1..Len(calls) : calls[i] # "Extract"
  /\ calls' = Append(calls, "Extract")
  /\ \E oob \in OobChars :
       LET got == ExtractImpl(carrier, oob) IN
       IF got.kind = "terminate"
       THEN /\ status' = "terminated"
            /\ UNCHANGED extracted
       ELSE /\ extracted' = SetValue(context, span_key, got.span_context)
            /\ UNCHANGED status
  /\ UNCHANGED <<context, carrier, carrier0, setter_calls>>
  /\ UNCHANGED builder_vars

Next == Inject \/ Extract

Spec == Init /\ [][Next]_vars

(***************************************************************************)
(* TraceState.Builder: set, remove and build over the lists above.         *)
(* A list has an identity: two holders of one list see each other's edits. *)
(***************************************************************************)
MAX_KEY_VALUE_PAIRS == 32

\* validateKey: declared next to the Builder; set does not call it
validateKey(key) ==
  IF Len(key) > KEY_MAX_SIZE \/ key = <<>> \/ ~IsKeyStart(At(key, 0))
  THEN FALSE
  ELSE /\ \A i \in 1..(Len(key) - 1) :
            \/ IsKeyStart(At(key, i))
            \/ At(key, i) \in {ChUnderscore, ChDash, ChAt, ChStar, ChSlash}
       /\ Cardinality({i \in 1..(Len(key) - 1) : At(key, i) = ChAt}) <= 1

\* validateValue: declared next to the Builder; set does not call it. It
\* reads value[value.length() - 1] before looking at the length: of an empty
\* value that is a read before the first character, which finds oob.
validateValue(value, oob) ==
  LET last == IF value = <<>> THEN oob ELSE At(value, Len(value) - 1) IN
  IF Len(value) > VALUE_MAX_SIZE \/ last = ChSpace
  THEN FALSE
  ELSE \A i \in 0..(Len(value) - 1) :
         ~(\/ At(value, i) = ChComma
           \/ At(value, i) = ChEquals
           \/ At(value, i) < ChSpace
           \/ At(value, i) > ChTilde)

\* "a", "b", " bad"
KeyA == <<97>>
KeyB == <<98>>
KeyBad == <<ChSpace, 98, 97, 100>>
\* "1", "2", "3", "x", "", "x,"
Val1 == <<49>>
Val2 == <<50>>
Val3 == <<51>>
ValX == <<120>>
ValEmpty == <<>>
ValComma == <<120, ChComma>>

\* the (key, value) pairs a caller hands to set
InputSets ==
  { <<KeyA, Val1>>, <<KeyB, Val2>>, <<KeyA, Val3>>, <<KeyBad, ValX>>,
    <<KeyA, ValEmpty>>, <<KeyB, ValComma>> }

\* the keys a caller hands to remove
InputRemoves == { KeyA, KeyB }

\* the longest sequence of calls a caller makes with the inputs above
MaxCalls == 4

\* "k01", "k02", ...: the keys of a caller that fills the builder
NumberedKey(i) == substr(NumberedMember(i), 0, 3)
NumberedValue == <<118>>

BuilderCall(op, key, value) == [op |-> op, key |-> key, value |-> value]

\* the caller has so far set k01, k02, ... in turn and done nothing else
Filling ==
  \A i \in 1..Len(builder_calls) :
    builder_calls[i] = BuilderCall("set", NumberedKey(i), NumberedValue)

\* the entries the builder would build: the parent's until the first edit
Staged == IF entries = null THEN lists[parent] ELSE lists[entries]

\* if (entries == null) entries = new ArrayList<>(parent.getEntries());
\* the lists after it, and the list entries then names
ListsAfterCopy ==
  IF entries = null THEN Append(lists, lists[parent]) ELSE lists

EntriesAfterCopy == IF entries = null THEN Len(lists) + 1 ELSE entries

\* Builder::set(key, value)
Builder_set ==
  /\ \E kv \in InputSets \cup { <<NumberedKey(Len(builder_calls) + 1), NumberedValue>> } :
       /\ \/ kv \in InputSets /\ Len(builder_calls) < MaxCalls
          \/ kv \notin InputSets /\ Filling /\ Len(builder_calls) < MaxMembers
       /\ lists' = [ListsAfterCopy EXCEPT ![EntriesAfterCopy] = Set(@, kv[1], kv[2])]
       /\ builder_calls' = Append(builder_calls, BuilderCall("set", kv[1], kv[2]))
  /\ entries' = EntriesAfterCopy
  /\ UNCHANGED <<parent, built>>
  /\ UNCHANGED propagator_vars

\* Builder::remove(key)
Builder_remove ==
  /\ Len(builder_calls) < MaxCalls
  /\ \E key \in InputRemoves :
       /\ lists' = [ListsAfterCopy EXCEPT ![EntriesAfterCopy] = RemoveFirst(@, key)]
       /\ builder_calls' = Append(builder_calls, BuilderCall("remove", key, <<>>))
  /\ entries' = EntriesAfterCopy
  /\ UNCHANGED <<parent, built>>
  /\ UNCHANGED propagator_vars

\* TraceState.create(std::vector<Entry> entries) returns
\* new AutoValue_TraceState(Collections.unmodifiableList(entries)).
\* unmodifiableList wraps the list it is given and copies nothing, and the
\* parameter is declared as a vector taken by value: the TraceState holds
\* the caller's list ("view") or a list of its own ("copy").
CreateOutcomes == { "view", "copy" }

create(list, how) ==
  IF how = "view"
  THEN [lists |-> lists, trace_state |-> list]
  ELSE [lists |-> Append(lists, lists[list]), trace_state |-> Len(lists) + 1]

\* Builder::build()
Builder_build ==
  /\ Len(builder_calls) < MaxCalls \/ Filling
  /\ IF entries = null
     THEN /\ built' = Append(built, parent)
          /\ UNCHANGED lists
     ELSE \E how \in CreateOutcomes :
            LET made == create(entries, how) IN
            /\ built' = Append(built, made.trace_state)
            /\ lists' = made.lists
  /\ builder_calls' = Append(builder_calls, BuilderCall("build", <<>>, <<>>))
  /\ UNCHANGED <<parent, entries>>
  /\ UNCHANGED propagator_vars

\* a builder from TraceState.builder(); the propagator is not called
InitBuilder ==
  /\ builder
  /\ context = EmptyContext
  /\ carrier = EmptyCarrier
  /\ carrier0 = EmptyCarrier
  /\ setter_calls = <<>>
  /\ extracted = EmptyContext
  /\ calls = <<>>
  /\ status = "running"

NextBuilder == Builder_set \/ Builder_remove \/ Builder_build

SpecBuilder == InitBuilder /\ [][NextBuilder]_vars

(***************************************************************************)
(* Properties                                                               *)
(***************************************************************************)
\* Inject was the one call made
InjectCalled == calls = <<"Inject">>

\* Extract was the last call made; it read the carrier as it stands
ExtractCalled == calls # <<>> /\ calls[Len(calls)] = "Extract"

\* the context holds a valid span context
HoldsValid(ctx) == HasValue(ctx, span_key) /\ IsValid(GetValue(ctx, span_key))

TraceParentRead == Lookup(carrier, kTraceParent)
TraceStateRead == Lookup(carrier, kTraceState)

\* C1: round trip. For every valid, non-remote span context with a
\* non-empty trace state, Inject into an empty carrier followed by Extract
\* returns a context whose span context has the same trace id, span id,
\* trace flags and trace state entries in the same order, and is remote.
C1_RoundTrip ==
  ( /\ calls = <<"Inject", "Extract">>
    /\ carrier0 = EmptyCarrier
    /\ HoldsValid(context)
    /\ ~GetValue(context, span_key).is_remote
    /\ GetValue(context, span_key).trace_state # <<>> )
  => /\ status = "running"
     /\ HasValue(extracted, span_key)
     /\ LET sent == GetValue(context, span_key)
            got == GetValue(extracted, span_key)
        IN /\ got.trace_id = sent.trace_id
           /\ got.span_id = sent.span_id
           /\ got.trace_flags = sent.trace_flags
           /\ got.trace_state = sent.trace_state
           /\ got.is_remote = TRUE

\* C2: with no traceparent header, or an empty one, Extract returns the
\* input context unchanged (no SetValue, no span context installed),
\* whatever the tracestate header holds.
C2_AbsentTraceParentLeavesContext ==
  (ExtractCalled /\ TraceParentRead = <<>>)
  => (status = "running" /\ extracted = context)

\* C3: Extract derives a valid span context only from a traceparent that
\* keeps the grammar: 55 characters, '-' at 2, 35 and 52, [0-9a-f]
\* everywhere else, version not "ff", trace id and span id not all zeros.
C3_OnlyWellFormedTraceParentAccepted ==
  ( /\ ExtractCalled
    /\ status = "running"
    /\ extracted # context
    /\ HoldsValid(extracted) )
  => WellFormedTraceParent(TraceParentRead)

\* C4: for a well-formed traceparent, every byte of the extracted trace id,
\* span id and trace flags is 16 * (value of the first hex digit) + (value
\* of the second), the sampled bit is the low bit of the flags, and the
\* span context is remote and valid.
C4_HexDecoding ==
  (ExtractCalled /\ WellFormedTraceParent(TraceParentRead))
  => /\ status = "running"
     /\ HasValue(extracted, span_key)
     /\ LET got == GetValue(extracted, span_key)
            flags == BytesOfHex(FlagsField(TraceParentRead))[1]
        IN /\ got.trace_id = BytesOfHex(TraceIdField(TraceParentRead))
           /\ got.span_id = BytesOfHex(SpanIdField(TraceParentRead))
           /\ got.trace_flags = flags
           /\ IsSampled(got.trace_flags) <=> (flags % 2 = 1)
           /\ got.is_remote = TRUE
           /\ IsValid(got)

\* C5: for every content of the two headers Extract completes normally and
\* returns a context: no exception, abort or termination.
C5_ExtractCompletes ==
  ExtractCalled => status = "running"

\* C6: when the context holds no span context, or an invalid one, Inject
\* completes normally without a Setter call: the carrier is as before.
C6_InjectWithoutSpanContextIsNoOp ==
  (InjectCalled /\ ~HoldsValid(context))
  => /\ status = "running"
     /\ carrier = carrier0
     /\ setter_calls = <<>>

\* C7: for every valid span context Inject calls the Setter with
\* "traceparent" and the 55 characters "00-" hex(trace id) "-" hex(span id)
\* "-" hex(flags), lowercase, two zero-padded digits per byte.
C7_TraceParentWritten ==
  (InjectCalled /\ HoldsValid(context))
  => LET sc == GetValue(context, span_key)
         expected == TraceParentOf(0, sc.trace_id, sc.span_id, sc.trace_flags)
     IN /\ status = "running"
        /\ Len(expected) = 55
        /\ \E i \in 1..Len(setter_calls) :
             setter_calls[i] = <<kTraceParent, expected>>
        /\ \A i \in 1..Len(setter_calls) :
             setter_calls[i][1] = kTraceParent => setter_calls[i][2] = expected

\* C8: for every valid span context Inject calls the Setter with
\* "tracestate" if and only if the trace state has an entry, and the value
\* is the entries in list order as key=value joined by ','.
C8_TraceStateWritten ==
  (InjectCalled /\ HoldsValid(context))
  => LET sc == GetValue(context, span_key) IN
     /\ (\E i \in 1..Len(setter_calls) : setter_calls[i][1] = kTraceState)
          <=> (sc.trace_state # <<>>)
     /\ \A i \in 1..Len(setter_calls) :
          setter_calls[i][1] = kTraceState
            => setter_calls[i][2] = FormatTraceState(sc.trace_state)

\* C9: with a valid traceparent and a tracestate that has a member without
\* '=', a member that breaks the key or value grammar, or two members with
\* one key, Extract returns the span context of the traceparent with a
\* trace state of zero entries, never a partly filled one.
C9_TraceStateFailsAsUnit ==
  ( /\ ExtractCalled
    /\ WellFormedTraceParent(TraceParentRead)
    /\ TraceStateRead # <<>>
    /\ ~WellFormedTraceState(TraceStateRead) )
  => /\ status = "running"
     /\ HasValue(extracted, span_key)
     /\ LET got == GetValue(extracted, span_key)
        IN /\ got.trace_state = <<>>
           /\ got.is_remote = TRUE
           /\ IsValid(got)

\* C10: with a valid traceparent and a tracestate of n well-formed members
\* with distinct keys, 1 <= n <= 32, Extract returns a trace state with
\* those n entries in the order of the header, first member first.
C10_TraceStateInWireOrder ==
  ( /\ ExtractCalled
    /\ WellFormedTraceParent(TraceParentRead)
    /\ TraceStateRead # <<>>
    /\ WellFormedTraceState(TraceStateRead)
    /\ Len(Members(TraceStateRead)) \in 1..32 )
  => /\ status = "running"
     /\ HasValue(extracted, span_key)
     /\ GetValue(extracted, span_key).trace_state = EntriesOf(TraceStateRead)

(***************************************************************************)
(* Reached states: the cases the properties are about                      *)
(***************************************************************************)
ContextOf(sc) == SetValue(EmptyContext, span_key, sc)

\* Inject then Extract on an empty carrier, from the example span context
\* with two trace state entries: Extract returns the default span context.
C1_RoundTripLosesSpanContext ==
  /\ calls = <<"Inject", "Extract">>
  /\ carrier0 = EmptyCarrier
  /\ context = ContextOf(SpanContext(TraceIdExample, SpanIdExample, 1,
                           <<Entry(KeyRojo, ValRojo), Entry(KeyCongo, ValCongo)>>,
                           FALSE))
  /\ status = "running"
  /\ GetValue(extracted, span_key) = DefaultSpanContext

\* Extract on a carrier with no traceparent and the example tracestate:
\* the returned context is the input with a default span context set.
C2_DefaultSpanContextInstalled ==
  /\ ExtractCalled
  /\ kTraceParent \notin DOMAIN carrier
  /\ TraceStateRead = TsExample
  /\ extracted = SetValue(context, span_key, DefaultSpanContext)
  /\ extracted # context

\* Extract on the example traceparent with a tab as its last character:
\* a valid span context comes back.
C3_TabInFlagsAccepted ==
  /\ ExtractCalled
  /\ TraceParentRead = WithChar(TraceParentExample, 54, ChTab)
  /\ status = "running"
  /\ HoldsValid(extracted)

\* Extract on the example traceparent: the first trace id byte is 0xa2 and
\* the flags are 0x31, not 0x4b and 0x01.
C4_ExampleDecodedFromCharCodes ==
  /\ ExtractCalled
  /\ TraceParentRead = TraceParentExample
  /\ status = "running"
  /\ GetValue(extracted, span_key).trace_id[1] = 162
  /\ GetValue(extracted, span_key).trace_flags = 49

\* Extract on the example traceparent with 'A' as its first character:
\* the program terminates.
C5_UppercaseTerminates ==
  /\ ExtractCalled
  /\ TraceParentRead = WithChar(TraceParentExample, 0, 65)
  /\ status = "terminated"

\* Inject on a context with nothing under span_key: the call does not
\* return.
C6_InjectOnEmptyContextFaults ==
  /\ InjectCalled
  /\ context = EmptyContext
  /\ status # "running"

\* Inject of trace id ...01, span id ...01, flags 0 into an empty carrier:
\* the traceparent written is "00-" \x01 "-" \x01 "-", 7 characters.
C7_SevenCharacterTraceParent ==
  /\ InjectCalled
  /\ carrier0 = EmptyCarrier
  /\ context = ContextOf(SpanContext(TraceIdOne, SpanIdOne, 0, <<>>, FALSE))
  /\ setter_calls = << <<kTraceParent, <<Ch0, Ch0, ChDash, ChOne, ChDash, ChOne, ChDash>> >> >>

\* Inject of a valid span context with trace state entries: no Setter call
\* names tracestate.
C8_TraceStateNotWritten ==
  /\ InjectCalled
  /\ HoldsValid(context)
  /\ Len(GetValue(context, span_key).trace_state) = 2
  /\ status = "running"
  /\ setter_calls # <<>>
  /\ \A i \in 1..Len(setter_calls) : setter_calls[i][1] # kTraceState

\* Extract with tracestate "a=1,bad,c=3": the trace state is (c,3), (a,1).
C9_PartlyFilledTraceState ==
  /\ ExtractCalled
  /\ TraceParentRead = TraceParentOne
  /\ TraceStateRead = TsNoEquals
  /\ status = "running"
  /\ GetValue(extracted, span_key).trace_state
       = <<Entry(<<99>>, <<51>>), Entry(<<ChLowerA>>, <<49>>)>>

\* Extract with the example tracestate: congo comes before rojo.
C10_ExampleReversed ==
  /\ ExtractCalled
  /\ TraceParentRead = TraceParentExample
  /\ TraceStateRead = TsExample
  /\ status = "running"
  /\ GetValue(extracted, span_key).trace_state
       = <<Entry(KeyCongo, ValCongo), Entry(KeyRojo, ValRojo)>>

(***************************************************************************)
(* The Builder's claims, under SpecBuilder                                  *)
(***************************************************************************)
\* the call just made, in a step that makes one
LastCall == builder_calls[Len(builder_calls)]

\* list without every entry that has the key, the others in their order
Without(list, key) == SelectSeq(list, LAMBDA e : e.key # key)

DistinctKeys(list) ==
  \A i, j \in 1..Len(list) : i # j => list[i].key # list[j].key

\* the position in builder_calls of the last set or remove of key; 0 for none
LastOn(key) ==
  LET at == {i \in 1..Len(builder_calls) :
               /\ builder_calls[i].op \in {"set", "remove"}
               /\ builder_calls[i].key = key}
  IN IF at = {} THEN 0 ELSE CHOOSE i \in at : \A j \in at : j <= i

\* list holds exactly the keys whose last call was a set, each with the
\* value of that set, a later set before an earlier one
MostRecentlySetFirst(list) ==
  /\ \A i \in 1..Len(list) :
       /\ LastOn(list[i].key) > 0
       /\ builder_calls[LastOn(list[i].key)] =
            BuilderCall("set", list[i].key, list[i].value)
  /\ \A i, j \in 1..Len(list) :
       i < j => LastOn(list[i].key) > LastOn(list[j].key)
  /\ \A c \in 1..Len(builder_calls) :
       (builder_calls[c].op = "set" /\ LastOn(builder_calls[c].key) = c)
         => \E i \in 1..Len(list) : list[i].key = builder_calls[c].key

\* Set(a,1), Set(b,2), Set(a,3), Build() on a fresh builder
ExampleCalls ==
  << BuilderCall("set", KeyA, Val1), BuilderCall("set", KeyB, Val2),
     BuilderCall("set", KeyA, Val3), BuilderCall("build", <<>>, <<>>) >>

\* a step that is a set of a grammar-valid key and value puts the entry in
\* front of the staged entries that have another key, those in their order
SetStep ==
  (/\ Len(builder_calls') = Len(builder_calls) + 1
   /\ LastCall'.op = "set"
   /\ KeyGrammar(LastCall'.key)
   /\ ValueGrammar(LastCall'.value))
    => Staged' = <<Entry(LastCall'.key, LastCall'.value)>>
                   \o Without(Staged, LastCall'.key)

\* C11: a Set with a grammar-valid key and value removes the staged entry
\* that has the key and inserts the new entry at the front, the other
\* entries keeping their order; so after any calls of Set and Remove the
\* staged entries have pairwise distinct keys and stand most recently set
\* first, and Set(a,1), Set(b,2), Set(a,3) on an empty builder builds
\* [(a,3),(b,2)].
C11_SetMovesToFront ==
  /\ [][SetStep]_vars
  /\ [](/\ DistinctKeys(Staged)
        /\ MostRecentlySetFirst(Staged)
        /\ builder_calls = ExampleCalls
             => lists[built[1]] = <<Entry(KeyA, Val3), Entry(KeyB, Val2)>>)

\* the example was run and built [(a,3),(b,2)]
C11_ExampleBuilt ==
  /\ builder_calls = ExampleCalls
  /\ lists[built[1]] = <<Entry(KeyA, Val3), Entry(KeyB, Val2)>>

\* a step that is a set of a key or a value outside its grammar leaves the
\* staged entries as they were
InvalidSetStep ==
  (/\ Len(builder_calls') = Len(builder_calls) + 1
   /\ LastCall'.op = "set"
   /\ ~KeyGrammar(LastCall'.key) \/ ~ValueGrammar(LastCall'.value))
    => Staged' = Staged

\* a step that is a set of a grammar-valid key with the empty value stages
\* the entry
EmptyValueSetStep ==
  (/\ Len(builder_calls') = Len(builder_calls) + 1
   /\ LastCall'.op = "set"
   /\ KeyGrammar(LastCall'.key)
   /\ LastCall'.value = <<>>)
    => /\ Staged' # <<>>
       /\ Staged'[1] = Entry(LastCall'.key, <<>>)

\* C12: Set is a no-op whenever the key fails the key grammar (empty, longer
\* than 256, first character not a lowercase letter or digit, a character
\* outside [a-z0-9_-@*/], more than one '@') or the value fails the value
\* grammar (longer than 256, a character outside 0x20..0x7E, ',' or '=', a
\* trailing space): the staged entries are unchanged; an empty value is
\* accepted as valid.
C12_InvalidSetIsNoOp == [][InvalidSetStep /\ EmptyValueSetStep]_vars

\* Set(" bad", "x") was the last call and its entry is staged, though the
\* key fails validateKey as it fails the key grammar
C12_InvalidKeyStaged ==
  /\ builder_calls # <<>>
  /\ LastCall = BuilderCall("set", KeyBad, ValX)
  /\ ~KeyGrammar(KeyBad)
  /\ ~validateKey(KeyBad)
  /\ Staged[1] = Entry(KeyBad, ValX)

\* every TraceState build() returned has at most 32 entries
BuiltWithinMax ==
  \A i \in 1..Len(built) : Len(lists[built[i]]) <= MAX_KEY_VALUE_PAIRS

\* the TraceState Extract returned has at most 32 entries, and none when
\* the tracestate header has more than 32 members, each of them well-formed
\* and the keys distinct: then the span context is the valid, remote one of
\* the traceparent
ExtractedWithinMax ==
  /\ (ExtractCalled /\ HasValue(extracted, span_key))
       => Len(GetValue(extracted, span_key).trace_state) <= MAX_KEY_VALUE_PAIRS
  /\ (/\ ExtractCalled
      /\ WellFormedTraceParent(TraceParentRead)
      /\ \A i \in 1..Len(Members(TraceStateRead)) :
           WellFormedMember(Members(TraceStateRead)[i])
      /\ DistinctKeys(EntriesOf(TraceStateRead))
      /\ Len(Members(TraceStateRead)) > MAX_KEY_VALUE_PAIRS)
       => /\ status = "running"
          /\ HasValue(extracted, span_key)
          /\ LET got == GetValue(extracted, span_key)
             IN /\ got.trace_state = <<>>
                /\ got.is_remote = TRUE
                /\ IsValid(got)

\* C13: every TraceState that is produced has at most 32 entries: the one
\* Build() returns after any calls of Set and Remove, 33 or more Sets with
\* distinct valid keys among them, and the one Extract returns, which for a
\* tracestate header of 33 or more distinct well-formed members is empty
\* while the fields taken from the traceparent stay.
C13_AtMost32Entries == BuiltWithinMax /\ ExtractedWithinMax

\* build() returned a TraceState of 33 entries with distinct valid keys
C13_Built33Entries ==
  /\ built # <<>>
  /\ Len(lists[built[1]]) = MAX_KEY_VALUE_PAIRS + 1
  /\ DistinctKeys(lists[built[1]])
  /\ \A i \in 1..Len(lists[built[1]]) :
       /\ KeyGrammar(lists[built[1]][i].key)
       /\ ValueGrammar(lists[built[1]][i].value)

\* a step leaves the entries of every TraceState built so far, and of the
\* builder's parent, as they were
BuiltKept ==
  /\ \A i \in 1..Len(built) :
       /\ built'[i] = built[i]
       /\ lists'[built[i]] = lists[built[i]]
  /\ parent' = parent
  /\ lists'[parent] = lists[parent]

\* C14: a TraceState that Build() returned is an immutable snapshot: a
\* later Set or Remove on the same builder, and a later Build(), leaves the
\* entries of every TraceState built before and of the builder's parent
\* unchanged; the built TraceState does not share its list of entries with
\* the builder.
C14_BuiltIsSnapshot == [][BuiltKept]_vars

\* Set(a,1), Build(), Set(b,2): the TraceState built after the first call
\* now holds [(b,2),(a,1)]
C14_BuiltSeesLaterSet ==
  /\ builder_calls =
       << BuilderCall("set", KeyA, Val1), BuilderCall("build", <<>>, <<>>),
          BuilderCall("set", KeyB, Val2) >>
  /\ built[1] = entries
  /\ lists[built[1]] = <<Entry(KeyB, Val2), Entry(KeyA, Val1)>>
====
